---------------------------- MODULE Spec2Model ----------------------------
(***************************************************************************)
(* lsn: listing of directory contents in which numbered files that share   *)
(* a stem and an extension are folded into one group.                      *)
(*                                                                         *)
(* The model follows src/src/lib.rs (the file name regex) and              *)
(* src/src/main.rs (the fold of the directory walk into an IndexMap, and   *)
(* the sort of the collected groups).                                      *)
(*                                                                         *)
(* Representation.                                                         *)
(*   - A file name is a sequence of characters; a character is a one       *)
(*     element token (a string).  "\n" is the line feed and "U+0663" is    *)
(*     the ARABIC-INDIC DIGIT THREE, a decimal digit that is not ASCII.    *)
(*   - Option<T> is a sequence of length at most one: <<>> is None and     *)
(*     <<v>> is Some(v).                                                   *)
(*   - usize and u64 are 64 bit wide (a 64 bit target).  A value is a      *)
(*     sequence of NLimbs limbs of 16 bits, the most significant first,    *)
(*     so that additions carry and overflow exactly as the machine words.  *)
(***************************************************************************)
EXTENDS Integers, Sequences, FiniteSets, TLC

VARIABLES
    opt,              \* the command line: all, unsorted, reverse, sort_options
    overflow_checks,  \* build profile: TRUE when arithmetic overflow panics
    pool,             \* the directory that is walked: the name of a pool of entries
    walked,           \* the entries the walk has yielded so far, in order
    map,              \* IndexMap<String, FileGroup>: <<[key, grp]>> in insertion order
    vec,              \* the collected (and sorted) groups
    pc,               \* "walk", "print" (sorted, ready for output), "panicked",
                      \* "sort_panicked"; "regex" and "matched" for the regex alone
    name,             \* decomposition: the file name given to the regex
    caps              \* decomposition: Option of the captures of the regex

vars == <<opt, overflow_checks, pool, walked, map, vec, pc, name, caps>>

(***************************************************************************)
(* Bounds of the model.                                                    *)
(***************************************************************************)
MaxEntries == 3   \* entries yielded by one walk
MaxNameLen == 3   \* length of the enumerated file names

(***************************************************************************)
(* Option<T>.                                                              *)
(***************************************************************************)
None == <<>>
Some(v) == <<v>>
Unwrap(o) == o[1]

Last(s) == s[Len(s)]

(***************************************************************************)
(* Characters.                                                             *)
(***************************************************************************)
AsciiDigits == {"0", "1", "2", "3", "4", "5", "6", "7", "8", "9"}
ArabicIndicThree == "U+0663"     \* a decimal digit (Nd) that is not ASCII
LineFeed == "\n"
ByteFE == "0xFE"                 \* a byte that is no valid UTF-8
ByteFF == "0xFF"                 \* another one
Replacement == "U+FFFD"          \* REPLACEMENT CHARACTER
\* The code point of a character; byte order of UTF-8 text is code point order.
\* The bytes 0xFE and 0xFF sort above every byte of valid UTF-8.
CodePoint(c) ==
    CASE c = LineFeed -> 10
      [] c = "#" -> 35
      [] c = "." -> 46
      [] c = "0" -> 48
      [] c = "1" -> 49
      [] c = "2" -> 50
      [] c = "3" -> 51
      [] c = "4" -> 52
      [] c = "5" -> 53
      [] c = "6" -> 54
      [] c = "7" -> 55
      [] c = "8" -> 56
      [] c = "9" -> 57
      [] c = "a" -> 97
      [] c = "b" -> 98
      [] c = "c" -> 99
      [] c = "x" -> 120
      [] c = ArabicIndicThree -> 1635
      [] c = Replacement -> 65533
      [] c = ByteFE -> 1114112 + 254     \* above every byte of valid UTF-8
      [] c = ByteFF -> 1114112 + 255

\* char::to_digit(10): the value of an ASCII decimal digit.
ToDigit(c) == CodePoint(c) - 48

(***************************************************************************)
(* Machine words.                                                          *)
(***************************************************************************)
WordBits == 64                 \* the width of u64, and of usize on a 64 bit target
LimbBase == 2 ^ 16
NLimbs == WordBits \div 16

RECURSIVE Repeat(_, _)
Repeat(v, k) == IF k = 0 THEN <<>> ELSE Append(Repeat(v, k - 1), v)

Word(n) == Append(Repeat(0, NLimbs - 1), n)     \* 0 <= n < LimbBase

\* x + y over the limbs from the least significant one: <<carry out, sum mod 2^64>>.
RECURSIVE AddFrom(_, _, _, _)
AddFrom(x, y, i, carry) ==
    IF i = 0 THEN <<carry, x>>
    ELSE LET t == x[i] + y[i] + carry
         IN  AddFrom([x EXCEPT ![i] = t % LimbBase], y, i - 1, t \div LimbBase)

WrappingAdd(x, y) == AddFrom(x, y, NLimbs, 0)[2]
AddOverflows(x, y) == AddFrom(x, y, NLimbs, 0)[1] # 0
CheckedAdd(x, y) == IF AddOverflows(x, y) THEN None ELSE Some(WrappingAdd(x, y))

\* x * m for a small m: <<carry out, product mod 2^64>>.
RECURSIVE MulFrom(_, _, _, _)
MulFrom(x, m, i, carry) ==
    IF i = 0 THEN <<carry, x>>
    ELSE LET t == x[i] * m + carry
         IN  MulFrom([x EXCEPT ![i] = t % LimbBase], m, i - 1, t \div LimbBase)

CheckedMul(x, m) ==
    LET r == MulFrom(x, m, NLimbs, 0) IN IF r[1] # 0 THEN None ELSE Some(r[2])

(***************************************************************************)
(* std::cmp::Ordering, and the comparisons the program uses.               *)
(***************************************************************************)
Less == "Less"
Equal == "Equal"
Greater == "Greater"

\* Lexicographic comparison of two sequences of integers, from index i.
RECURSIVE CmpLex(_, _, _)
CmpLex(a, b, i) ==
    IF i > Len(a) /\ i > Len(b) THEN Equal
    ELSE IF i > Len(a) THEN Less
    ELSE IF i > Len(b) THEN Greater
    ELSE IF a[i] < b[i] THEN Less
    ELSE IF a[i] > b[i] THEN Greater
    ELSE CmpLex(a, b, i + 1)

CmpInt(a, b) == IF a < b THEN Less ELSE IF a > b THEN Greater ELSE Equal
CmpWord(a, b) == CmpLex(a, b, 1)
MinWord(a, b) == IF CmpWord(b, a) = Less THEN b ELSE a      \* Ord::min
MaxWord(a, b) == IF CmpWord(b, a) = Less THEN a ELSE b      \* Ord::max

\* OsString and str comparison: byte order.
CodePoints(s) == [i \in 1..Len(s) |-> CodePoint(s[i])]
CmpStr(a, b) == CmpLex(CodePoints(a), CodePoints(b), 1)

\* Ordering::then and Ordering::reverse
Then(first, second) == IF first # Equal THEN first ELSE second
Reverse(o) == IF o = Less THEN Greater ELSE IF o = Greater THEN Less ELSE Equal

(***************************************************************************)
(* The file name regex of build_regex, anchored at both ends, has three    *)
(* named groups: stem, an optional run of any characters closed by a       *)
(* non-digit; num, one or more digits; ext, an optional "." and any        *)
(* characters after it.  In the regex crate a digit is any Unicode decimal *)
(* digit, a non-digit any other character, "any character" any character   *)
(* but the line feed, and the end anchor the end of the text.              *)
(***************************************************************************)
IsDigit(c) == c \in AsciiDigits \cup {ArabicIndicThree}      \* the class of digits
IsAny(c) == c # LineFeed                                     \* the class of the dot

\* the group stem matches s[1..i]
StemMatches(s, i) ==
    \/ i = 0
    \/ /\ i >= 1
       /\ ~IsDigit(s[i])
       /\ \A k \in 1..(i - 1) : IsAny(s[k])

\* the group num matches s[i+1..j]
NumMatches(s, i, j) == j > i /\ \A k \in (i + 1)..j : IsDigit(s[k])

\* the group ext, and then the end anchor, match s[j+1..Len(s)]
ExtMatches(s, j) ==
    \/ j = Len(s)
    \/ /\ j < Len(s)
       /\ s[j + 1] = "."
       /\ \A k \in (j + 2)..Len(s) : IsAny(s[k])

\* The splits <<i, j>> under which the whole regex matches s.
Splits(s) ==
    {ij \in (0..Len(s)) \X (0..Len(s)) :
        StemMatches(s, ij[1]) /\ NumMatches(s, ij[1], ij[2]) /\ ExtMatches(s, ij[2])}

\* The regex prefers the first alternative that matches: the greedy stem takes the
\* longest match before the empty one, and the greedy num the longest numeral.
Preferred(ij, kl) == ij[1] > kl[1] \/ (ij[1] = kl[1] /\ ij[2] >= kl[2])

build_regex(s) ==
    IF Splits(s) = {} THEN None
    ELSE LET ij == CHOOSE ij \in Splits(s) : \A kl \in Splits(s) : Preferred(ij, kl)
         IN  Some([stem |-> SubSeq(s, 1, ij[1]),
                   num  |-> SubSeq(s, ij[1] + 1, ij[2]),
                   ext  |-> SubSeq(s, ij[2] + 1, Len(s))])

\* str::parse::<usize>: Err on a character that is no ASCII digit and on a value
\* above usize::MAX (checked_mul by the radix, then checked_add of the digit).
RECURSIVE ParseFrom(_, _)
ParseFrom(acc, s) ==
    IF s = <<>> THEN Some(acc)
    ELSE IF Head(s) \notin AsciiDigits THEN None
    ELSE LET m == CheckedMul(acc, 10)
         IN  IF m = None THEN None
             ELSE LET a == CheckedAdd(Unwrap(m), Word(ToDigit(Head(s))))
                  IN  IF a = None THEN None ELSE ParseFrom(Unwrap(a), Tail(s))

parse_usize(s) == IF s = <<>> THEN None ELSE ParseFrom(Word(0), s)

\* OsStr::to_string_lossy: a byte that is no UTF-8 becomes U+FFFD.
Lossy(c) == IF c \in {ByteFE, ByteFF} THEN Replacement ELSE c
to_string_lossy(s) == [i \in 1..Len(s) |-> Lossy(s[i])]

(***************************************************************************)
(* std::path::Path: file_stem and extension of a file name.                *)
(***************************************************************************)
Dots(s) == {i \in 1..Len(s) : s[i] = "."}
LastDot(s) == CHOOSE i \in Dots(s) : \A k \in Dots(s) : k <= i

\* <<before, after>> of the last "."; a name with no ".", or with its only "." in
\* front, has no before part.
rsplit_file_at_dot(s) ==
    IF s = <<".", ".">> THEN <<Some(s), None>>
    ELSE IF Dots(s) = {} THEN <<None, Some(s)>>
    ELSE IF LastDot(s) = 1 THEN <<Some(s), None>>
    ELSE <<Some(SubSeq(s, 1, LastDot(s) - 1)), Some(SubSeq(s, LastDot(s) + 1, Len(s)))>>

\* file_name is an Option: a path such as "." or "/" has none.
file_stem(file_name) ==
    IF file_name = None THEN None
    ELSE LET ba == rsplit_file_at_dot(Unwrap(file_name))
         IN  IF ba[1] # None THEN ba[1] ELSE ba[2]

extension(file_name) ==
    IF file_name = None THEN None
    ELSE LET ba == rsplit_file_at_dot(Unwrap(file_name))
         IN  IF ba[1] # None THEN ba[2] ELSE None

(***************************************************************************)
(* Meta and FileGroup.                                                     *)
(*   Meta      = [modified, accessed, created : Option<SystemTime>,        *)
(*                size : u64, is_dir, is_symlink : bool]                   *)
(*   FileGroup = [range : Option<[start, end : usize]>,                    *)
(*                parent : Option<PathBuf>, stem, ext : OsString,          *)
(*                meta : Option<Meta>]                                     *)
(* A SystemTime is a natural number; a directory entry is                  *)
(*   [file_name : Option<name>, parent : Option<PathBuf>,                  *)
(*    meta : Option<Meta>]                                                 *)
(* where meta is what entry.metadata().ok().map(Meta::from) gives.         *)
(***************************************************************************)
Meta(modified, accessed, created, size, is_dir, is_symlink) ==
    [modified |-> modified, accessed |-> accessed, created |-> created,
     size |-> size, is_dir |-> is_dir, is_symlink |-> is_symlink]

FileGroup(range, parent, stem, ext, meta) ==
    [range |-> range, parent |-> parent, stem |-> stem, ext |-> ext, meta |-> meta]

Range(start, end) == [start |-> start, end |-> end]

\* The accessors of FileGroup.
modified(grp) == IF grp.meta = None THEN None ELSE Unwrap(grp.meta).modified
accessed(grp) == IF grp.meta = None THEN None ELSE Unwrap(grp.meta).accessed
created(grp) == IF grp.meta = None THEN None ELSE Unwrap(grp.meta).created
size(grp) == IF grp.meta = None THEN None ELSE Some(Unwrap(grp.meta).size)
is_dir(grp) == IF grp.meta = None THEN FALSE ELSE Unwrap(grp.meta).is_dir
is_symlink(grp) == IF grp.meta = None THEN FALSE ELSE Unwrap(grp.meta).is_symlink

(***************************************************************************)
(* IndexMap<String, FileGroup>: the pairs in insertion order.              *)
(***************************************************************************)
Keys(m) == {m[i].key : i \in 1..Len(m)}
IndexOf(m, k) == CHOOSE i \in 1..Len(m) : m[i].key = k
Get(m, k) == m[IndexOf(m, k)].grp

\* A variant of insert that moves a key it replaces to the end of the map.
MapInsertMovesKey(m, k, grp) ==
    Append(SelectSeq(m, LAMBDA kv : kv.key # k), [key |-> k, grp |-> grp])

\* IndexMap::insert: the value of a key already there is replaced in place; a new
\* key goes to the end.
MapInsert(m, k, grp) ==
    IF k \in Keys(m)
    THEN [m EXCEPT ![IndexOf(m, k)] = [key |-> k, grp |-> grp]]
    ELSE Append(m, [key |-> k, grp |-> grp])

\* into_values().collect()
IntoValues(m) == [i \in 1..Len(m) |-> m[i].grp]

(***************************************************************************)
(* The body of and_modify: one more numbered name for a group.             *)
(***************************************************************************)
\* A variant of the merge in which a field the entry lacks is lost by the group.
MergeTimePoisons(grp_time, cur_time, newest) ==
    IF grp_time # None /\ cur_time # None
    THEN IF newest
         THEN Some(IF Unwrap(grp_time) >= Unwrap(cur_time)
                   THEN Unwrap(grp_time) ELSE Unwrap(cur_time))
         ELSE Some(IF Unwrap(grp_time) <= Unwrap(cur_time)
                   THEN Unwrap(grp_time) ELSE Unwrap(cur_time))
    ELSE None

\* if let Some((grp_t, cur_t)) = grp_meta.t.as_mut().zip(meta.t) { *grp_t = max or min }
MergeTime(grp_time, cur_time, newest) ==
    IF grp_time # None /\ cur_time # None
    THEN IF newest
         THEN Some(IF Unwrap(grp_time) >= Unwrap(cur_time)
                   THEN Unwrap(grp_time) ELSE Unwrap(cur_time))
         ELSE Some(IF Unwrap(grp_time) <= Unwrap(cur_time)
                   THEN Unwrap(grp_time) ELSE Unwrap(cur_time))
    ELSE grp_time

\* The metadata of the group after the merge; the sum of the sizes wraps here, and
\* AndModifyPanics tells when the build panics instead.
MergeMeta(grp_meta, meta) ==
    IF grp_meta # None /\ meta # None
    THEN LET g == Unwrap(grp_meta)
             c == Unwrap(meta)
         IN  Some([g EXCEPT !.modified = MergeTime(g.modified, c.modified, TRUE),
                            !.accessed = MergeTime(g.accessed, c.accessed, TRUE),
                            !.created = MergeTime(g.created, c.created, FALSE),
                            !.size = WrappingAdd(g.size, c.size)])
    ELSE grp_meta

\* grp.range.as_mut().unwrap() panics on a group without a range; with overflow
\* checks num + 1 and size += panic on overflow.
AndModifyPanics(grp, num, meta, checks) ==
    \/ grp.range = None
    \/ checks /\ AddOverflows(num, Word(1))
    \/ /\ checks
       /\ grp.meta # None
       /\ meta # None
       /\ AddOverflows(Unwrap(grp.meta).size, Unwrap(meta).size)

AndModify(grp, num, meta) ==
    LET range == Unwrap(grp.range)
    IN  [grp EXCEPT !.range = Some(Range(MinWord(range.start, num),
                                         MaxWord(range.end, WrappingAdd(num, Word(1))))),
                    !.meta = MergeMeta(grp.meta, meta)]

(***************************************************************************)
(* The body of the loop over the entries of the walk.                      *)
(***************************************************************************)
Hash == <<"#">>

\* format!("{}#{}", stem, ext)
GroupKey(stem, ext) == stem \o Hash \o ext

\* path.file_stem().unwrap_or("."), and "." and path.extension() when there is one
EntryStem(e) ==
    IF file_stem(e.file_name) # None THEN Unwrap(file_stem(e.file_name)) ELSE <<".">>

EntryExt(e) ==
    LET extn == IF extension(e.file_name) # None
                THEN Unwrap(extension(e.file_name)) ELSE <<>>
    IN  IF extn # <<>> THEN <<".">> \o extn ELSE <<>>

\* path.file_name().map(to_string_lossy).unwrap_or("..")
file_name_str(e) ==
    IF e.file_name # None THEN to_string_lossy(Unwrap(e.file_name)) ELSE <<".", ".">>

\* if !opt.all && stem.as_bytes()[0] == b'.' { continue }
Skipped(e, all) == ~all /\ EntryStem(e)[1] = "."

\* The map after one entry, and whether the program panicked on it.
Fold(m, e, all, checks) ==
    LET captures == build_regex(file_name_str(e))
    IN  IF Skipped(e, all)
        THEN [panicked |-> FALSE, map |-> m]
        ELSE IF captures = None
        THEN [panicked |-> FALSE,
              map |-> MapInsert(m, file_name_str(e),
                                FileGroup(None, e.parent, EntryStem(e), EntryExt(e),
                                          e.meta))]
        ELSE LET c == Unwrap(captures)
                 key == GroupKey(c.stem, c.ext)
                 parsed == parse_usize(c.num)
             IN  IF parsed = None
                 THEN [panicked |-> TRUE, map |-> m]
                 ELSE LET num == Unwrap(parsed)
                      IN  IF key \in Keys(m)
                          THEN IF AndModifyPanics(Get(m, key), num, e.meta, checks)
                               THEN [panicked |-> TRUE, map |-> m]
                               ELSE [panicked |-> FALSE,
                                     map |-> [m EXCEPT ![IndexOf(m, key)].grp =
                                                 AndModify(Get(m, key), num, e.meta)]]
                          ELSE IF checks /\ AddOverflows(num, Word(1))
                               THEN [panicked |-> TRUE, map |-> m]
                               ELSE [panicked |-> FALSE,
                                     map |-> Append(m,
                                        [key |-> key,
                                         grp |-> FileGroup(
                                            Some(Range(num, WrappingAdd(num, Word(1)))),
                                            e.parent, c.stem, c.ext, e.meta)])]

(***************************************************************************)
(* The comparator of vec.sort_by, and the sort.                            *)
(***************************************************************************)
\* Option<SystemTime>::cmp: None is below every Some.
CmpOptTime(a, b) ==
    IF a = None /\ b = None THEN Equal
    ELSE IF a = None THEN Less
    ELSE IF b = None THEN Greater
    ELSE CmpInt(Unwrap(a), Unwrap(b))

\* Iterator::cmp of two Range<usize>: the numbers of the ranges are compared one by
\* one, and a range that ends first is the lesser one; a range with start >= end
\* holds no number.
CmpRange(a, b) ==
    LET a_empty == CmpWord(a.start, a.end) # Less
        b_empty == CmpWord(b.start, b.end) # Less
    IN  IF a_empty /\ b_empty THEN Equal
        ELSE IF a_empty THEN Less
        ELSE IF b_empty THEN Greater
        ELSE Then(CmpWord(a.start, b.start), CmpWord(a.end, b.end))

RECURSIVE ByOptions(_, _, _)
ByOptions(options, a_meta, b_meta) ==
    IF options = <<>> THEN Equal
    ELSE Then(IF Head(options) = "sort_by_modified"
              THEN CmpOptTime(a_meta.modified, b_meta.modified)
              ELSE CmpWord(a_meta.size, b_meta.size),
              ByOptions(Tail(options), a_meta, b_meta))

\* The closure given to sort_by.
Compare(a, b, o) ==
    LET by_meta == IF a.meta # None /\ b.meta # None
                   THEN ByOptions(o.sort_options, Unwrap(a.meta), Unwrap(b.meta))
                   ELSE Equal
        by_stem == Then(by_meta, CmpStr(a.stem, b.stem))
        by_range == IF a.range # None /\ b.range # None
                    THEN Then(by_stem, CmpRange(Unwrap(a.range), Unwrap(b.range)))
                    ELSE by_stem
        less == IF ~o.unsorted THEN Then(by_range, CmpStr(a.ext, b.ext)) ELSE by_meta
    IN  IF o.reverse THEN Reverse(less) ELSE less

\* sort_by asks for a total order: the two directions of a comparison agree, and
\* "not after" is transitive.
NotAfter(a, b, o) == Compare(a, b, o) # Greater

TotalOrderOn(v, o) ==
    LET S == {v[i] : i \in 1..Len(v)}
    IN  /\ \A a, b \in S : Compare(a, b, o) = Reverse(Compare(b, a, o))
        /\ \A a, b, c \in S : NotAfter(a, b, o) /\ NotAfter(b, c, o) => NotAfter(a, c, o)

\* The stable sort: each element goes after the elements not after it.
InsertSorted(sorted, x, o) ==
    LET n == Cardinality({i \in 1..Len(sorted) : NotAfter(sorted[i], x, o)})
    IN  SubSeq(sorted, 1, n) \o <<x>> \o SubSeq(sorted, n + 1, Len(sorted))

RECURSIVE SortFrom(_, _, _)
SortFrom(sorted, rest, o) ==
    IF rest = <<>> THEN sorted
    ELSE SortFrom(InsertSorted(sorted, Head(rest), o), Tail(rest), o)

StableSort(v, o) == SortFrom(<<>>, v, o)

Rearrangements(v) == {[i \in 1..Len(v) |-> v[p[i]]] : p \in Permutations(1..Len(v))}

\* if !opt.unsorted || !sort_options.is_empty()
Sorts(o) == ~o.unsorted \/ o.sort_options # <<>>

(***************************************************************************)
(* The state machine.                                                      *)
(***************************************************************************)
SortOptions ==
    {<<>>, <<"sort_by_modified">>, <<"sort_by_size">>,
     <<"sort_by_modified", "sort_by_size">>, <<"sort_by_size", "sort_by_modified">>}

Opt(all, unsorted, reverse, sort_options) ==
    [all |-> all, unsorted |-> unsorted, reverse |-> reverse,
     sort_options |-> sort_options]

Entry(file_name, parent, meta) ==
    [file_name |-> file_name, parent |-> parent, meta |-> meta]

\* Metadata of a file and of a directory.
FileMeta(time, bytes) == Some(Meta(Some(time), Some(time), Some(time), Word(bytes), FALSE, FALSE))
DirMeta(time, bytes) == Some(Meta(Some(time), Some(time), Some(time), Word(bytes), TRUE, FALSE))

\* The decimal digits of usize::MAX, 2^64 - 1, and of 2^64.
UsizeMaxDigits ==
    <<"1", "8", "4", "4", "6", "7", "4", "4", "0", "7",
      "3", "7", "0", "9", "5", "5", "1", "6", "1", "5">>
TooLongDigits ==
    <<"1", "8", "4", "4", "6", "7", "4", "4", "0", "7",
      "3", "7", "0", "9", "5", "5", "1", "6", "1", "6">>

\* The largest size of a file, i64::MAX = 2^63 - 1 (st_size is an off_t).
OffMax == <<(LimbBase \div 2) - 1>> \o Repeat(LimbBase - 1, NLimbs - 1)

\* Names whose keys meet: numbered and plain names with "#" in them, a hidden name,
\* numerals that do not parse, the path without a file name, a name that is no UTF-8.
KeyPool ==
    {Entry(Some(<<"1", ".", "#">>), Some("p"), FileMeta(1, 10)),
     Entry(Some(<<"#", ".", "1">>), Some("p"), FileMeta(1, 10)),
     Entry(Some(<<"a", "1">>), Some("p"), FileMeta(1, 10)),
     Entry(Some(<<"a", "2">>), Some("q"), DirMeta(2, 20)),
     Entry(Some(<<"a", "#">>), Some("p"), FileMeta(1, 10)),
     Entry(Some(<<"a", "#">>), Some("q"), DirMeta(2, 20)),
     Entry(Some(<<".", "a", "1">>), Some("p"), FileMeta(1, 10)),
     Entry(Some(<<"a">> \o TooLongDigits), Some("p"), FileMeta(1, 10)),
     Entry(Some(<<"a", ArabicIndicThree>>), Some("p"), FileMeta(1, 10)),
     Entry(None, None, DirMeta(1, 10)),
     Entry(Some(<<"a", ByteFE>>), Some("p"), FileMeta(1, 10))}

\* Numbered names of one group, up to the largest numeral that parses.
RangePool ==
    {Entry(Some(<<"a", "1">>), Some("p"), FileMeta(1, 10)),
     Entry(Some(<<"a", "2">>), Some("p"), FileMeta(1, 10)),
     Entry(Some(<<"a", "0", "7">>), Some("p"), FileMeta(1, 10)),
     Entry(Some(<<"a", "1", "0">>), Some("p"), FileMeta(1, 10)),
     Entry(Some(<<"a">> \o UsizeMaxDigits), Some("p"), FileMeta(1, 10))}

\* Numbered names of one group with metadata of every kind: complete, with fields
\* the file system does not give, unreadable, and of the largest size.
MetaPool ==
    {Entry(Some(<<"x", "1">>), Some("p"), FileMeta(1, 10)),
     Entry(Some(<<"x", "2">>), Some("p"), FileMeta(2, 20)),
     Entry(Some(<<"x", "3">>), Some("p"),
           Some(Meta(None, Some(3), None, Word(30), FALSE, FALSE))),
     Entry(Some(<<"x", "4">>), Some("p"), None),
     Entry(Some(<<"x", "5">>), Some("p"),
           Some(Meta(Some(1), Some(1), Some(1), OffMax, FALSE, FALSE)))}

\* Names of one stem with and without numerals, one of them met in two
\* directories, a plain name that is the key of a numbered one, a hidden name,
\* and metadata that is unreadable for one entry.
OrderPool ==
    {Entry(Some(<<"x", "2", ".", "a">>), Some("p"), FileMeta(1, 10)),
     Entry(Some(<<"x", "#", ".", "a">>), Some("q"), FileMeta(4, 40)),
     Entry(Some(<<"x", ".", "b">>), Some("p"), None),
     Entry(Some(<<"x", ".", "b">>), Some("q"), FileMeta(3, 5)),
     Entry(Some(<<"x", "1", ".", "c">>), Some("p"), FileMeta(2, 20)),
     Entry(Some(<<".", "x">>), Some("p"), FileMeta(1, 10))}

\* The file names the regex is tried on: every name of at most MaxNameLen
\* characters of a small alphabet, and the names of the tests of lib.rs.
RegexAlphabet == {"a", ".", "0", "1", LineFeed, ArabicIndicThree}

NamesOfLen(n) == [1..n -> RegexAlphabet]

TestNames ==
    {<<"t", "e", "s", "t", "2", ".", "3", "d", "v">>,
     <<"t", "e", "s", "t", "2", ".", "t", "x", "t">>,
     <<"s", "o", "m", "e", "1", "o", "t", "h", "e", "r", "5", "t", "e", "s", "t", "2",
       ".", "3", "d", "v">>,
     <<"s", "o", "m", "e", "1", "o", "t", "h", "e", "r", "5", "t", "e", "s", "t", "2">>,
     <<"s", "o", "m", "e", "1", "o", "t", "h", "e", "r", "5", "t", "e", "s", "t", "2",
       ".">>,
     <<"0", "s", "o", "m", "e", "1", "o", "t", "h", "e", "r", "5", "t", "e", "s", "t",
       "2", ".", "t">>,
     <<"0", "1", ".", "t">>,
     <<"0", "1">>}

\* The entries a walk of the directory can yield.
Entries(directory) ==
    CASE directory = "keys" -> KeyPool
      [] directory = "range" -> RangePool
      [] directory = "meta" -> MetaPool
      [] directory = "order" -> OrderPool
      [] OTHER -> {}

RegexNames == UNION {NamesOfLen(n) : n \in 1..MaxNameLen} \cup TestNames

\* The walk yields one more entry, and the body of the loop folds it into the map.
Walk ==
    /\ pc = "walk"
    /\ Len(walked) < MaxEntries
    /\ \E e \in Entries(pool) :
          LET r == Fold(map, e, opt.all, overflow_checks)
          IN  /\ walked' = Append(walked, e)
              /\ map' = r.map
              /\ pc' = IF r.panicked THEN "panicked" ELSE "walk"
    /\ UNCHANGED <<opt, overflow_checks, pool, vec, name, caps>>

\* The walk is over: the groups are collected and sorted.  Under a comparator that
\* is no total order sort_by leaves the groups in an unspecified order, or panics.
Collect ==
    /\ pc = "walk"
    /\ IF ~Sorts(opt)
       THEN vec' = IntoValues(map) /\ pc' = "print"
       ELSE IF TotalOrderOn(IntoValues(map), opt)
       THEN vec' = StableSort(IntoValues(map), opt) /\ pc' = "print"
       ELSE \/ vec' \in Rearrangements(IntoValues(map)) /\ pc' = "print"
            \/ vec' = IntoValues(map) /\ pc' = "sort_panicked"
    /\ UNCHANGED <<opt, overflow_checks, pool, walked, map, name, caps>>

\* The regex is applied to one file name.
Captures ==
    /\ pc = "regex"
    /\ caps' = build_regex(name)
    /\ pc' = "matched"
    /\ UNCHANGED <<opt, overflow_checks, pool, walked, map, vec, name>>

\* The program after main has read its arguments, for a directory and a set of
\* command lines.
Start(directory, options) ==
    /\ opt \in options
    /\ overflow_checks \in BOOLEAN
    /\ pool = directory
    /\ walked = <<>>
    /\ map = <<>>
    /\ vec = <<>>
    /\ pc = "walk"
    /\ name = <<>>
    /\ caps = None

Unsorted == {Opt(all, TRUE, FALSE, <<>>) : all \in BOOLEAN}

AllOptions ==
    {Opt(all, unsorted, reverse, sort_options) :
        all \in BOOLEAN, unsorted \in BOOLEAN, reverse \in BOOLEAN,
        sort_options \in SortOptions}

Init == Start("keys", Unsorted)
InitRange == Start("range", Unsorted)
InitMeta == Start("meta", Unsorted)
InitOrder == Start("order", AllOptions)

InitRegex ==
    /\ opt = Opt(FALSE, FALSE, FALSE, <<>>)
    /\ overflow_checks = FALSE
    /\ pool = "none"
    /\ walked = <<>>
    /\ map = <<>>
    /\ vec = <<>>
    /\ pc = "regex"
    /\ name \in RegexNames
    /\ caps = None

Next == Walk \/ Collect
NextRegex == Captures

Spec == Init /\ [][Next]_vars
SpecRange == InitRange /\ [][Next]_vars
SpecMeta == InitMeta /\ [][Next]_vars
SpecOrder == InitOrder /\ [][Next]_vars
SpecRegex == InitRegex /\ [][NextRegex]_vars

(***************************************************************************)
(* The vocabulary of the properties.                                       *)
(***************************************************************************)
\* The decomposition of the name of an entry, if it has one.
Decomposition(e) == build_regex(file_name_str(e))
Decomposes(e) == Decomposition(e) # None
StemOf(e) == IF Decomposes(e) THEN Unwrap(Decomposition(e)).stem ELSE EntryStem(e)
ExtOf(e) == IF Decomposes(e) THEN Unwrap(Decomposition(e)).ext ELSE EntryExt(e)

\* The key the program folds an entry under.
KeyOf(e) == IF Decomposes(e) THEN GroupKey(StemOf(e), ExtOf(e)) ELSE file_name_str(e)

\* The entries the loop has taken and folded to the end: not the hidden ones, and
\* not the entry the program panicked on.
Folded ==
    {i \in 1..Len(walked) :
        /\ ~Skipped(walked[i], opt.all)
        /\ ~(pc = "panicked" /\ i = Len(walked))}

\* A step of the loop that folds entry e.
Folds(e) ==
    /\ pc = "walk"
    /\ Len(walked') = Len(walked) + 1
    /\ e = Last(walked')
    /\ ~Skipped(e, opt.all)

(***************************************************************************)
(* C1.  Two names that both decompose are folded into the same group if    *)
(* and only if their stems are equal and their extensions are equal: once  *)
(* two such names with different stems or extensions are folded, the map   *)
(* holds two distinct groups, each with its own stem, extension and range. *)
(***************************************************************************)
C1_SameGroupIffSameStemAndExt ==
    \A i, j \in Folded :
        Decomposes(walked[i]) /\ Decomposes(walked[j]) =>
            IF StemOf(walked[i]) = StemOf(walked[j]) /\ ExtOf(walked[i]) = ExtOf(walked[j])
            THEN KeyOf(walked[i]) = KeyOf(walked[j])
            ELSE \E a, b \in 1..Len(map) :
                    /\ a # b
                    /\ map[a].grp.stem = StemOf(walked[i])
                    /\ map[a].grp.ext = ExtOf(walked[i])
                    /\ map[a].grp.range # None
                    /\ map[b].grp.stem = StemOf(walked[j])
                    /\ map[b].grp.ext = ExtOf(walked[j])
                    /\ map[b].grp.range # None

(***************************************************************************)
(* C2.  A name that fails decomposition never merges with anything:        *)
(* folding it leaves the group of every decomposed name as it was, in its  *)
(* place; and folding a decomposed name whose key meets the group of an    *)
(* undecomposable name leaves that group as it was and does not abort the  *)
(* run.                                                                    *)
(***************************************************************************)
C2_UndecomposableNeverMerges ==
    [][\A e \in Entries(pool) :
          Folds(e) =>
            /\ ~Decomposes(e) =>
                  \A n \in 1..Len(map) :
                      map[n].grp.range # None => Len(map') >= n /\ map'[n] = map[n]
            /\ Decomposes(e) =>
                  \A n \in 1..Len(map) :
                      map[n].grp.range = None =>
                          /\ Len(map') >= n /\ map'[n] = map[n]
                          /\ map[n].key = KeyOf(e) => pc' # "panicked"]_vars

(***************************************************************************)
(* C5.  An entry whose numeral is a digit run too long for the numeric     *)
(* type does not abort the run: it is folded as a singleton group keyed by *)
(* its raw name, with no range.                                            *)
(***************************************************************************)
TooLong(e) ==
    /\ Decomposes(e)
    /\ \A k \in 1..Len(Unwrap(Decomposition(e)).num) :
          Unwrap(Decomposition(e)).num[k] \in AsciiDigits
    /\ parse_usize(Unwrap(Decomposition(e)).num) = None

C5_TooLongNumeralIsSingleton ==
    \A i \in 1..Len(walked) :
        TooLong(walked[i]) /\ ~Skipped(walked[i], opt.all) =>
            /\ ~(pc = "panicked" /\ i = Len(walked))
            /\ file_name_str(walked[i]) \in Keys(map)
            /\ Get(map, file_name_str(walked[i])).range = None

(***************************************************************************)
(* C6.  Every group keeps the parent, stem, extension, is_dir and          *)
(* is_symlink of the first entry folded under its key: no later entry of   *)
(* the key, numbered or not, changes them.                                 *)
(***************************************************************************)
FirstOf(k) ==
    CHOOSE i \in Folded :
        /\ KeyOf(walked[i]) = k
        /\ \A j \in Folded : KeyOf(walked[j]) = k => i <= j

C6_GroupKeepsFirstEntry ==
    \A n \in 1..Len(map) :
        LET first == walked[FirstOf(map[n].key)]
            grp == map[n].grp
        IN  /\ grp.parent = first.parent
            /\ grp.stem = StemOf(first)
            /\ grp.ext = ExtOf(first)
            /\ is_dir(grp) = (first.meta # None /\ Unwrap(first.meta).is_dir)
            /\ is_symlink(grp) = (first.meta # None /\ Unwrap(first.meta).is_symlink)

(***************************************************************************)
(* C3.  Folding numbered entries of one group key in any order of arrival  *)
(* yields the same range, and that range is (the least numeral, the        *)
(* greatest numeral + 1).                                                  *)
(***************************************************************************)
NumeralOf(e) == Unwrap(parse_usize(Unwrap(Decomposition(e)).num))

LeastNumeral ==
    CHOOSE n \in {NumeralOf(walked[i]) : i \in 1..Len(walked)} :
        \A i \in 1..Len(walked) : CmpWord(n, NumeralOf(walked[i])) # Greater

GreatestNumeral ==
    CHOOSE n \in {NumeralOf(walked[i]) : i \in 1..Len(walked)} :
        \A i \in 1..Len(walked) : CmpWord(n, NumeralOf(walked[i])) # Less

\* The fold of a sequence of entries from the empty map; None when it panics.
RECURSIVE FoldAll(_, _)
FoldAll(m, entries) ==
    IF entries = <<>> THEN Some(m)
    ELSE LET r == Fold(m, Head(entries), opt.all, overflow_checks)
         IN  IF r.panicked THEN None ELSE FoldAll(r.map, Tail(entries))

C3_RangeIsLeastToGreatest ==
    Len(walked) > 0 =>
        /\ pc # "panicked"
        /\ Len(map) = 1
        /\ CheckedAdd(GreatestNumeral, Word(1)) # None
        /\ map[1].grp.range =
              Some(Range(LeastNumeral, Unwrap(CheckedAdd(GreatestNumeral, Word(1)))))
        /\ \A p \in Permutations(1..Len(walked)) :
              LET m == FoldAll(<<>>, [i \in 1..Len(walked) |-> walked[p[i]]])
              IN  m # None /\ Unwrap(m)[1].grp.range = map[1].grp.range

(***************************************************************************)
(* C8.  The aggregated size of a group is the exact sum of the sizes of    *)
(* all the entries merged into it.                                         *)
(***************************************************************************)
\* The sum of the sizes of the entries as a u64, None when it is above u64::MAX.
RECURSIVE ExactSum(_, _)
ExactSum(acc, entries) ==
    IF entries = <<>> THEN Some(acc)
    ELSE LET sum == CheckedAdd(acc, Unwrap(Head(entries).meta).size)
         IN  IF sum = None THEN None ELSE ExactSum(Unwrap(sum), Tail(entries))

C8_SizeIsExactSum ==
    (Len(walked) > 0 /\ \A i \in 1..Len(walked) : walked[i].meta # None) =>
        /\ pc # "panicked"
        /\ Len(map) = 1
        /\ size(map[1].grp) = ExactSum(Word(0), walked)

(***************************************************************************)
(* C4.  Metadata aggregation is poisoning: when an entry is merged into a  *)
(* group and either of them lacks modified, accessed, created or the whole *)
(* metadata record, the merged group lacks it afterwards.                  *)
(***************************************************************************)
Fields == {"modified", "accessed", "created"}

EntryField(e, f) == IF e.meta = None THEN None ELSE Unwrap(e.meta)[f]
GroupField(grp, f) == IF grp.meta = None THEN None ELSE Unwrap(grp.meta)[f]

\* A step that merges entry e into the group of its key.
Merges(e) ==
    /\ Folds(e)
    /\ Decomposes(e)
    /\ KeyOf(e) \in Keys(map)
    /\ pc' = "walk"

Later(a, b) == IF a >= b THEN a ELSE b
Earlier(a, b) == IF a <= b THEN a ELSE b

RECURSIVE FirstKeys(_, _)
FirstKeys(keys, i) ==
    IF i > Len(walked) THEN keys
    ELSE IF i \in Folded /\ \A n \in 1..Len(keys) : keys[n] # KeyOf(walked[i])
    THEN FirstKeys(Append(keys, KeyOf(walked[i])), i + 1)
    ELSE FirstKeys(keys, i + 1)

C7_UnsortedIsFirstOccurrenceOrder ==
    (pc = "print" /\ opt.unsorted /\ opt.sort_options = <<>>) =>
        LET keys == FirstKeys(<<>>, 1)
        IN  /\ Len(vec) = Len(keys)
            /\ \A n \in 1..Len(keys) :
                  /\ keys[n] \in Keys(map)
                  /\ vec[n] = Get(map, keys[n])

\* Two groups are output with the reverse flag set, after a key has come back
\* behind another one.
C7_KeyCameBackReversed ==
    /\ pc = "print" /\ opt.unsorted /\ opt.sort_options = <<>> /\ opt.reverse
    /\ Len(walked) = 3 /\ Folded = {1, 2, 3}
    /\ KeyOf(walked[1]) = KeyOf(walked[3])
    /\ KeyOf(walked[1]) # KeyOf(walked[2])
    /\ Len(vec) = 2
    /\ vec[1] # vec[2]

(***************************************************************************)
(* C10.  The comparison that orders the groups is a total preorder under   *)
(* every sort configuration, with or without ranges and metadata: of three *)
(* groups a, b, c, if a does not sort after b and b does not sort after c  *)
(* then a does not sort after c.                                           *)
(***************************************************************************)
C10_CompareIsTransitive ==
    \A a, b, c \in {map[n].grp : n \in 1..Len(map)} :
        NotAfter(a, b, opt) /\ NotAfter(b, c, opt) => NotAfter(a, c, opt)

(***************************************************************************)
(* C9.  Decomposition is a partition around the rightmost qualifying       *)
(* numeral.  A name decomposes if and only if it holds a digit that is     *)
(* followed by the end of the name or by "."; then stem, numeral and       *)
(* extension joined are the name, the numeral is the rightmost maximal run *)
(* of digits followed by the end of the name or by ".", the stem is empty  *)
(* or ends in a non-digit, and the extension is empty or begins with ".".  *)
(* For instance some1other5test2.3dv has the stem some1other5test, the     *)
(* numeral 2 and the extension .3dv.                                       *)
(***************************************************************************)
\* The ends of the runs of digits that are followed by the end of s or by ".".
QualifyingEnds(s) ==
    {j \in 1..Len(s) : IsDigit(s[j]) /\ (j = Len(s) \/ s[j + 1] = ".")}

RightmostEnd(s) == CHOOSE j \in QualifyingEnds(s) : \A k \in QualifyingEnds(s) : k <= j

\* The start of the maximal run of digits that ends at j.
RunStart(s, j) ==
    CHOOSE i \in 1..j :
        /\ \A k \in i..j : IsDigit(s[k])
        /\ i = 1 \/ ~IsDigit(s[i - 1])

Example == <<"s", "o", "m", "e", "1", "o", "t", "h", "e", "r", "5", "t", "e", "s", "t",
             "2", ".", "3", "d", "v">>

C9_DecompositionIsPartition ==
    pc = "matched" =>
        /\ (caps # None) = (QualifyingEnds(name) # {})
        /\ caps # None =>
              LET c == Unwrap(caps)
                  j == RightmostEnd(name)
                  i == RunStart(name, j)
              IN  /\ c.stem \o c.num \o c.ext = name
                  /\ c.stem = SubSeq(name, 1, i - 1)
                  /\ c.num = SubSeq(name, i, j)
                  /\ c.stem = <<>> \/ ~IsDigit(Last(c.stem))
                  /\ c.ext = <<>> \/ Head(c.ext) = "."
        /\ name = Example =>
              caps = Some([stem |-> SubSeq(Example, 1, 15), num |-> <<"2">>,
                           ext |-> SubSeq(Example, 17, 20)])

=============================================================================
